---- MODULE Spec2Model ----
EXTENDS Integers, Sequences, FiniteSets, TLC

(***************************************************************************)
(* Clock: the simulated-time state machine of Core/Clock.                  *)
(*                                                                         *)
(* A JulianDate is modelled as an integer number of milliseconds, so that  *)
(* addSeconds(t, multiplier * (milliseconds / 1000.0)) is exact.           *)
(* ClockStep and ClockRange members are modelled by their names.           *)
(***************************************************************************)

\* ---- bounds of the model ----
MaxOptTime == 2      \* option times are 0 and MaxOptTime seconds
MaxNow == 3          \* JulianDate.now() answers 1 or MaxNow seconds
MaxStamp == 2        \* getTimestamp() answers at most MaxStamp seconds
MaxMultiplier == 5   \* the largest multiplier assigned

\* ---- program constants ----
MsPerSecond == 1000
SecondsPerDay == 86400

MsPerDay == SecondsPerDay * MsPerSecond

SYSTEM_CLOCK == "SYSTEM_CLOCK"
SYSTEM_CLOCK_MULTIPLIER == "SYSTEM_CLOCK_MULTIPLIER"
TICK_DEPENDENT == "TICK_DEPENDENT"
ClockStep == {TICK_DEPENDENT, SYSTEM_CLOCK_MULTIPLIER, SYSTEM_CLOCK}

UNBOUNDED == "UNBOUNDED"
CLAMPED == "CLAMPED"
LOOP_STOP == "LOOP_STOP"
ClockRange == {UNBOUNDED, CLAMPED, LOOP_STOP}

\* ---- inputs ----
TimeValues == {0, MsPerSecond * MaxOptTime}
NowValues == {MsPerSecond, MsPerSecond * MaxNow}
Multipliers == {-1, 1, MaxMultiplier}
StampValues == {MsPerSecond * i : i \in 0..MaxStamp}

\* The answers of a JulianDate.now() that is made, and the stand-in for one that is not.
NowRead(made) == IF made THEN NowValues ELSE {0}

\* An option that was not passed is <<>>, one that was passed is <<value>>.
Undefined == <<>>
Opt(S) == {Undefined} \cup {<<v>> : v \in S}
defined(x) == x # Undefined
OrElse(x, d) == IF defined(x) THEN x[1] ELSE d

ClockOptions ==
    [startTime : Opt(TimeValues), stopTime : Opt(TimeValues),
     currentTime : Opt(TimeValues), multiplier : Opt(Multipliers \ {1}),
     clockStep : Opt({SYSTEM_CLOCK, TICK_DEPENDENT}),
     clockRange : Opt({CLAMPED, LOOP_STOP}),
     canAnimate : Opt({FALSE}), shouldAnimate : Opt({TRUE})]

\* ---- JulianDate ----
\* A duration in seconds is carried in thousandths of a second.
Seconds(n) == n * MsPerSecond
addSeconds(t, seconds) == t + seconds
addDays(t, days) == t + days * MsPerDay
secondsDifference(left, right) == left - right
lessThan(left, right) == left < right
greaterThan(left, right) == left > right

\* Clock: pc, clock, onStopRaised, onTickRaised, last.
\* AssociativeArray: array and hash are its fields, aaLast the last call made on it.
\* call is what is in progress outside these two: one call of a static function
\* (its arguments and, once made, its result), one tick() taken statement by
\* statement, or a ContextCache with its rebuilds in flight.
VARIABLES pc, clock, onStopRaised, onTickRaised, last, array, hash, aaLast, call

vars == <<pc, clock, onStopRaised, onTickRaised, last, array, hash, aaLast, call>>

clockVars == <<pc, clock, onStopRaised, onTickRaised, last>>
aaVars == <<array, hash, aaLast>>

NoClock ==
    [startTime |-> 0, stopTime |-> 0, clockRange |-> UNBOUNDED, canAnimate |-> TRUE,
     currentTime |-> 0, multiplier |-> 1, clockStep |-> SYSTEM_CLOCK_MULTIPLIER,
     shouldAnimate |-> FALSE, lastSystemTime |-> 0]

NoArg == [kind |-> "none"]

\* ---- property setters ----
SetCurrentTime_KeepsStep(c, value) ==
    IF c.currentTime = value THEN c ELSE [c EXCEPT !.currentTime = value]

SetClockStep_KeepsShouldAnimate(c, value, now) ==
    IF value = SYSTEM_CLOCK
    THEN [c EXCEPT !.multiplier = 1, !.currentTime = now, !.clockStep = value]
    ELSE [c EXCEPT !.clockStep = value]

SetMultiplier_KeepsStep(c, value) ==
    IF c.multiplier = value THEN c ELSE [c EXCEPT !.multiplier = value]

SetCurrentTime(c, value) ==
    IF c.currentTime = value THEN c
    ELSE [c EXCEPT !.clockStep = IF @ = SYSTEM_CLOCK THEN SYSTEM_CLOCK_MULTIPLIER ELSE @,
                   !.currentTime = value]

SetMultiplier(c, value) ==
    IF c.multiplier = value THEN c
    ELSE [c EXCEPT !.clockStep = IF @ = SYSTEM_CLOCK THEN SYSTEM_CLOCK_MULTIPLIER ELSE @,
                   !.multiplier = value]

SetClockStep(c, value, now) ==
    IF value = SYSTEM_CLOCK
    THEN [c EXCEPT !.multiplier = 1, !.shouldAnimate = TRUE, !.currentTime = now,
                   !.clockStep = value]
    ELSE [c EXCEPT !.clockStep = value]

SetShouldAnimate(c, value) ==
    IF c.shouldAnimate = value THEN c
    ELSE [c EXCEPT !.clockStep = IF @ = SYSTEM_CLOCK THEN SYSTEM_CLOCK_MULTIPLIER ELSE @,
                   !.shouldAnimate = value]

\* ---- constructor ----
ResolveCurrentTime_StopFirst(opts, now) ==
    IF ~defined(opts.currentTime)
    THEN IF defined(opts.stopTime) THEN addDays(opts.stopTime[1], -1)
         ELSE IF defined(opts.startTime) THEN opts.startTime[1]
         ELSE now
    ELSE opts.currentTime[1]

ConstructorThrows_Never(opts, now) == FALSE

ResolveCurrentTime(opts, now) ==
    IF ~defined(opts.currentTime)
    THEN IF defined(opts.startTime) THEN opts.startTime[1]
         ELSE IF defined(opts.stopTime) THEN addDays(opts.stopTime[1], -1)
         ELSE now
    ELSE opts.currentTime[1]

ResolveStartTime(opts, now) ==
    IF ~defined(opts.startTime) THEN ResolveCurrentTime(opts, now) ELSE opts.startTime[1]

ResolveStopTime(opts, now) ==
    IF ~defined(opts.stopTime) THEN addDays(ResolveStartTime(opts, now), 1)
    ELSE opts.stopTime[1]

ConstructorThrows(opts, now) ==
    greaterThan(ResolveStartTime(opts, now), ResolveStopTime(opts, now))

ConstructorReadsNow(opts) ==
    ~defined(opts.currentTime) /\ ~defined(opts.startTime) /\ ~defined(opts.stopTime)

\* The fields as first assigned, before the setters are applied.
ConstructorFields(opts, now, stamp) ==
    [startTime |-> ResolveStartTime(opts, now),
     stopTime |-> ResolveStopTime(opts, now),
     clockRange |-> OrElse(opts.clockRange, UNBOUNDED),
     canAnimate |-> OrElse(opts.canAnimate, TRUE),
     currentTime |-> ResolveCurrentTime(opts, now),
     multiplier |-> OrElse(opts.multiplier, 1),
     clockStep |-> OrElse(opts.clockStep, SYSTEM_CLOCK_MULTIPLIER),
     shouldAnimate |-> OrElse(opts.shouldAnimate, FALSE),
     lastSystemTime |-> stamp]

\* now is the answer of the JulianDate.now() of the defaulting chain, now2 the
\* answer of the one the clockStep setter makes.
Constructor(opts, now, now2, stamp) ==
    LET c0 == ConstructorFields(opts, now, stamp)
        c1 == SetCurrentTime(c0, ResolveCurrentTime(opts, now))
        c2 == SetMultiplier(c1, OrElse(opts.multiplier, 1))
        c3 == SetShouldAnimate(c2, OrElse(opts.shouldAnimate, FALSE))
    IN  SetClockStep(c3, OrElse(opts.clockStep, SYSTEM_CLOCK_MULTIPLIER), now2)

\* ---- tick ----
Advance_ElapsedOnly(c, milliseconds) == addSeconds(c.currentTime, c.multiplier * milliseconds)

\* The time after the step, before the range policy (SYSTEM_CLOCK excluded).
Advance(c, milliseconds) ==
    IF c.clockStep = TICK_DEPENDENT
    THEN addSeconds(c.currentTime, Seconds(c.multiplier))
    ELSE addSeconds(c.currentTime, c.multiplier * milliseconds)

Clamped_StopOnly(t, startTime, stopTime) ==
    IF greaterThan(t, stopTime) THEN [time |-> stopTime, stops |-> 1]
    ELSE [time |-> t, stops |-> 0]

Clamped_SilentStop(t, startTime, stopTime) ==
    IF lessThan(t, startTime) THEN [time |-> startTime, stops |-> 0]
    ELSE IF greaterThan(t, stopTime) THEN [time |-> stopTime, stops |-> 0]
    ELSE [time |-> t, stops |-> 0]

\* CLAMPED: the time and the number of onStop events raised.
Clamped(t, startTime, stopTime) ==
    IF lessThan(t, startTime) THEN [time |-> startTime, stops |-> 0]
    ELSE IF greaterThan(t, stopTime) THEN [time |-> stopTime, stops |-> 1]
    ELSE [time |-> t, stops |-> 0]

\* LOOP_STOP: the while loop; it ends only if each round moves the time back.
RECURSIVE LoopWhile(_, _, _, _)
LoopWhile(t, startTime, stopTime, n) ==
    IF greaterThan(t, stopTime)
    THEN LoopWhile(addSeconds(startTime, secondsDifference(t, stopTime)),
                   startTime, stopTime, n + 1)
    ELSE [time |-> t, stops |-> n]

LoopStart_Keeps(t, startTime) == t

LoopStart(t, startTime) == IF lessThan(t, startTime) THEN startTime ELSE t

LoopDiverges(t, startTime, stopTime) ==
    /\ greaterThan(LoopStart(t, startTime), stopTime)
    /\ ~lessThan(startTime, stopTime)

LoopStop_WrapsOnce(t, startTime, stopTime) ==
    IF greaterThan(LoopStart(t, startTime), stopTime)
    THEN [time |-> addSeconds(startTime, secondsDifference(LoopStart(t, startTime), stopTime)),
          stops |-> 1]
    ELSE [time |-> LoopStart(t, startTime), stops |-> 0]

LoopStop(t, startTime, stopTime) == LoopWhile(LoopStart(t, startTime), startTime, stopTime, 0)

RangePolicy(c, t) ==
    IF c.clockRange = CLAMPED THEN Clamped(t, c.startTime, c.stopTime)
    ELSE IF c.clockRange = LOOP_STOP THEN LoopStop(t, c.startTime, c.stopTime)
    ELSE [time |-> t, stops |-> 0]

Animating_Either(c) == c.canAnimate \/ c.shouldAnimate

Animating(c) == c.canAnimate /\ c.shouldAnimate

\* tick() does not return when the LOOP_STOP loop makes no progress.
TickDiverges(c, milliseconds) ==
    /\ Animating(c)
    /\ c.clockStep # SYSTEM_CLOCK
    /\ c.clockRange = LOOP_STOP
    /\ LoopDiverges(Advance(c, milliseconds), c.startTime, c.stopTime)

\* The new current time and the onStop events of a tick that returns.
TickResult(c, milliseconds, now) ==
    IF Animating(c)
    THEN IF c.clockStep = SYSTEM_CLOCK THEN [time |-> now, stops |-> 0]
         ELSE RangePolicy(c, Advance(c, milliseconds))
    ELSE [time |-> c.currentTime, stops |-> 0]

Commit_StampWhenAnimating(c, currentTime, currentSystemTime) ==
    IF Animating(c)
    THEN [c EXCEPT !.currentTime = currentTime, !.lastSystemTime = currentSystemTime]
    ELSE [c EXCEPT !.currentTime = currentTime]

Commit_StopsAnimating(c, currentTime, currentSystemTime) ==
    [c EXCEPT !.currentTime = currentTime, !.lastSystemTime = currentSystemTime,
              !.shouldAnimate = c.shouldAnimate /\ currentTime # c.stopTime]

\* The end of tick(): the new time and the time stamp of this call are stored.
Commit(c, currentTime, currentSystemTime) ==
    [c EXCEPT !.currentTime = currentTime, !.lastSystemTime = currentSystemTime]

\* ---- AssociativeArray: keys, values and the empty collection ----
\* Values are modelled by their names; undefined, null and NaN are the values that
\* defined(), === and indexOf treat specially.
Keys == {"a", "b"}
Values == {"undefined", "null", "NaN", "v1", "v2"}

\* _hash[key] of a key that is not in the hash is undefined.
EmptyHash == [k \in Keys |-> "undefined"]

NoAACall == [op |-> "none", key |-> "a", value |-> "undefined", ret |-> FALSE,
             array |-> <<>>, hash |-> EmptyHash]

AANew == array = <<>> /\ hash = EmptyHash /\ aaLast = NoAACall

NoCall == [fn |-> "none"]

\* ---- the Clock state machine ----
Pre(c) == [currentTime |-> c.currentTime, multiplier |-> c.multiplier,
           clockStep |-> c.clockStep, shouldAnimate |-> c.shouldAnimate]

ClockNew ==
    /\ pc = "new"
    /\ clock = NoClock
    /\ onStopRaised = 0
    /\ onTickRaised = 0
    /\ last = [op |-> "none", arg |-> NoArg, pre |-> Pre(NoClock), ret |-> 0]

Init ==
    /\ ClockNew
    /\ AANew
    /\ call = NoCall

Construct ==
    /\ pc = "new"
    /\ \E opts \in ClockOptions :
       \E now \in NowRead(ConstructorReadsNow(opts)),
          now2 \in NowRead(OrElse(opts.clockStep, SYSTEM_CLOCK_MULTIPLIER) = SYSTEM_CLOCK) :
          /\ IF ConstructorThrows(opts, now)
             THEN pc' = "error" /\ clock' = clock
             ELSE pc' = "ready" /\ clock' = Constructor(opts, now, now2, 0)
          /\ last' = [op |-> "new", arg |-> [opts |-> opts, now |-> now, now2 |-> now2],
                      pre |-> Pre(NoClock), ret |-> 0]
    /\ onStopRaised' = 0
    /\ onTickRaised' = 0
    /\ UNCHANGED <<aaVars, call>>

Assign(op, arg, c) ==
    /\ pc = "ready"
    /\ clock' = c
    /\ last' = [op |-> op, arg |-> arg, pre |-> Pre(clock), ret |-> 0]
    /\ onStopRaised' = 0
    /\ onTickRaised' = 0
    /\ pc' = pc
    /\ UNCHANGED <<aaVars, call>>

AssignCurrentTime ==
    \E value \in TimeValues : Assign("currentTime", value, SetCurrentTime(clock, value))

AssignMultiplier ==
    \E value \in Multipliers : Assign("multiplier", value, SetMultiplier(clock, value))

AssignClockStep ==
    \E value \in ClockStep : \E now \in NowRead(value = SYSTEM_CLOCK) :
        Assign("clockStep", [value |-> value, now |-> now], SetClockStep(clock, value, now))

AssignShouldAnimate ==
    \E value \in BOOLEAN : Assign("shouldAnimate", value, SetShouldAnimate(clock, value))

AssignCanAnimate ==
    \E value \in BOOLEAN : Assign("canAnimate", value, [clock EXCEPT !.canAnimate = value])

AssignClockRange ==
    \E value \in ClockRange : Assign("clockRange", value, [clock EXCEPT !.clockRange = value])

\* Ticks are followed while the advanced time lies between one second before the
\* earliest option time and MaxMultiplier seconds after the latest one.
InTime(t) == -MsPerSecond <= t /\ t <= Seconds(MaxOptTime + MaxMultiplier)

Tick ==
    /\ pc = "ready"
    /\ \E currentSystemTime \in StampValues,
          now \in NowRead(Animating(clock) /\ clock.clockStep = SYSTEM_CLOCK) :
         LET milliseconds == currentSystemTime - clock.lastSystemTime IN
          /\ milliseconds >= 0
          /\ ~TickDiverges(clock, milliseconds)
          /\ LET r == TickResult(clock, milliseconds, now) IN
               /\ ~Animating(clock) \/ clock.clockStep = SYSTEM_CLOCK
                     \/ InTime(Advance(clock, milliseconds))
               /\ clock' = Commit(clock, r.time, currentSystemTime)
               /\ onStopRaised' = r.stops
               /\ onTickRaised' = 1
               /\ last' = [op |-> "tick",
                           arg |-> [milliseconds |-> milliseconds, now |-> now],
                           pre |-> Pre(clock), ret |-> r.time]
    /\ pc' = pc
    /\ UNCHANGED <<aaVars, call>>

TickHangs ==
    /\ pc = "ready"
    /\ \E currentSystemTime \in StampValues :
         LET milliseconds == currentSystemTime - clock.lastSystemTime IN
          /\ milliseconds >= 0
          /\ TickDiverges(clock, milliseconds)
          /\ last' = [op |-> "tick", arg |-> [milliseconds |-> milliseconds, now |-> 0],
                      pre |-> Pre(clock), ret |-> 0]
    /\ pc' = "hung"
    /\ UNCHANGED <<clock, onStopRaised, onTickRaised, aaVars, call>>

Next ==
    \/ Construct
    \/ AssignCurrentTime
    \/ AssignMultiplier
    \/ AssignClockStep
    \/ AssignShouldAnimate
    \/ AssignCanAnimate
    \/ AssignClockRange
    \/ Tick
    \/ TickHangs

Spec == Init /\ [][Next]_vars

\* ---- steps and states the properties speak of ----
ClockExists == pc \in {"ready", "hung"}

\* A step that is a tick() call that returns.
TickStep == pc = "ready" /\ pc' = "ready" /\ last'.op = "tick"

\* The state right after a tick() call that returned.
Ticked == pc = "ready" /\ last.op = "tick"

\* C1: a clock that follows the system clock has multiplier 1 and shouldAnimate
\* true, in every state reached by construction, the setters, writes to
\* canAnimate and clockRange, and tick.
C1_SystemClockConsistent ==
    ClockExists =>
        (clock.clockStep = SYSTEM_CLOCK => clock.multiplier = 1 /\ clock.shouldAnimate = TRUE)

\* C1 witness: a clock constructed with clockStep SYSTEM_CLOCK and another multiplier.
C1_Witness ==
    /\ pc = "ready"
    /\ last.op = "new"
    /\ last.arg.opts.clockStep = <<SYSTEM_CLOCK>>
    /\ last.arg.opts.multiplier = <<MaxMultiplier>>
    /\ clock.clockStep = SYSTEM_CLOCK

\* C2: a tick made while canAnimate or shouldAnimate is false leaves currentTime
\* as it was, raises no stop notification and raises the tick notification once.
C2_IdleTickKeepsTime ==
    [][(TickStep /\ ~(clock.canAnimate /\ clock.shouldAnimate)) =>
         /\ clock'.currentTime = clock.currentTime
         /\ onStopRaised' = 0
         /\ onTickRaised' = 1]_vars

\* C2 witness: an idle tick of a CLAMPED clock whose time lies past stopTime.
C2_Witness ==
    /\ Ticked
    /\ ~(clock.canAnimate /\ clock.shouldAnimate)
    /\ clock.clockRange = CLAMPED
    /\ clock.multiplier = MaxMultiplier
    /\ clock.currentTime > clock.stopTime
    /\ clock.currentTime = last.pre.currentTime
    /\ onTickRaised = 1

\* C3: CLAMPED and TICK_DEPENDENT, animating, with the time inside the window:
\* a tick whose advance passes stopTime ends at stopTime, returns it and raises
\* the stop notification once.
C3_ClampAtStop ==
    [][(/\ TickStep
        /\ clock.clockRange = CLAMPED
        /\ clock.clockStep = TICK_DEPENDENT
        /\ clock.canAnimate /\ clock.shouldAnimate
        /\ clock.startTime <= clock.currentTime
        /\ clock.currentTime <= clock.stopTime
        /\ clock.currentTime + clock.multiplier * MsPerSecond > clock.stopTime) =>
         /\ clock'.currentTime = clock.stopTime
         /\ last'.ret = clock.stopTime
         /\ onStopRaised' = 1]_vars

\* C3 witness: such a tick, from the start of a window shorter than the multiplier.
C3_Witness ==
    /\ Ticked
    /\ clock.clockRange = CLAMPED
    /\ last.pre.clockStep = TICK_DEPENDENT
    /\ clock.canAnimate /\ last.pre.shouldAnimate
    /\ last.pre.currentTime = clock.startTime
    /\ clock.startTime < clock.stopTime
    /\ last.pre.currentTime + last.pre.multiplier * MsPerSecond > clock.stopTime
    /\ clock.currentTime = clock.stopTime
    /\ onStopRaised = 1

\* The advance of a tick in TICK_DEPENDENT or SYSTEM_CLOCK_MULTIPLIER mode, from the
\* fields before the step and the milliseconds the step records.
Advanced ==
    clock.currentTime +
        (IF clock.clockStep = TICK_DEPENDENT THEN clock.multiplier * MsPerSecond
         ELSE clock.multiplier * last'.arg.milliseconds)

\* C4 as claimed: CLAMPED, animating, positive multiplier, configuration unchanged:
\* the tick that follows a tick which clamped the time to stopTime raises no stop
\* notification.
C4_AsClaimed ==
    [][(/\ TickStep
        /\ Ticked /\ onStopRaised = 1 /\ clock.currentTime = clock.stopTime
        /\ clock.clockRange = CLAMPED
        /\ clock.clockStep # SYSTEM_CLOCK
        /\ clock.canAnimate /\ clock.shouldAnimate
        /\ clock.multiplier > 0) =>
         onStopRaised' = 0]_vars

\* C4 amended: the tick that follows a tick which clamped the time to stopTime
\* keeps currentTime at stopTime and raises the stop notification once again
\* whenever its own advance passes stopTime: every TICK_DEPENDENT tick, and every
\* SYSTEM_CLOCK_MULTIPLIER tick with elapsed time; it raises none otherwise.
C4_StopOncePerPassingTick ==
    [][(/\ TickStep
        /\ Ticked /\ onStopRaised = 1 /\ clock.currentTime = clock.stopTime
        /\ clock.clockRange = CLAMPED
        /\ clock.clockStep # SYSTEM_CLOCK
        /\ clock.canAnimate /\ clock.shouldAnimate
        /\ clock.multiplier > 0) =>
         /\ clock'.currentTime = clock.stopTime
         /\ onStopRaised' =
              IF clock.clockStep = TICK_DEPENDENT \/ last'.arg.milliseconds > 0 THEN 1 ELSE 0]_vars

\* C4 witness: a tick that started at stopTime and raised the stop notification.
C4_Witness ==
    /\ Ticked
    /\ clock.clockRange = CLAMPED
    /\ last.pre.clockStep = TICK_DEPENDENT
    /\ clock.canAnimate /\ last.pre.shouldAnimate
    /\ last.pre.multiplier = 1
    /\ last.pre.currentTime = clock.stopTime
    /\ clock.currentTime = clock.stopTime
    /\ onStopRaised = 1

\* C5: LOOP_STOP with startTime < stopTime: an animating tick in TICK_DEPENDENT or
\* SYSTEM_CLOCK_MULTIPLIER mode whose advanced time t passes stopTime ends at
\* t - k * (stopTime - startTime) for the smallest k >= 1 that brings it to
\* stopTime or before, and raises the stop notification k times.
C5_LoopWraps ==
    [][(/\ TickStep
        /\ clock.clockRange = LOOP_STOP
        /\ clock.startTime < clock.stopTime
        /\ clock.clockStep # SYSTEM_CLOCK
        /\ clock.canAnimate /\ clock.shouldAnimate
        /\ Advanced > clock.stopTime) =>
         /\ onStopRaised' >= 1
         /\ clock'.currentTime = Advanced - onStopRaised' * (clock.stopTime - clock.startTime)
         /\ clock'.currentTime <= clock.stopTime
         /\ clock'.currentTime + (clock.stopTime - clock.startTime) > clock.stopTime]_vars

\* C5 witness: a tick that wrapped twice.
C5_Witness ==
    /\ Ticked
    /\ clock.clockRange = LOOP_STOP
    /\ clock.startTime < clock.stopTime
    /\ last.pre.clockStep = TICK_DEPENDENT
    /\ clock.canAnimate /\ last.pre.shouldAnimate
    /\ last.pre.currentTime = clock.startTime
    /\ onStopRaised = 2
    /\ clock.currentTime = last.pre.currentTime + last.pre.multiplier * MsPerSecond
                              - 2 * (clock.stopTime - clock.startTime)

\* C6 as claimed: after an animating tick with clockRange CLAMPED or LOOP_STOP and
\* startTime <= stopTime, startTime <= currentTime <= stopTime in every step mode.
C6_AsClaimed ==
    [][(/\ TickStep
        /\ clock.clockRange \in {CLAMPED, LOOP_STOP}
        /\ clock.startTime <= clock.stopTime
        /\ clock.canAnimate /\ clock.shouldAnimate) =>
         /\ clock.startTime <= clock'.currentTime
         /\ clock'.currentTime <= clock.stopTime]_vars

\* C6 amended: the same for the step modes SYSTEM_CLOCK_MULTIPLIER and
\* TICK_DEPENDENT; in SYSTEM_CLOCK mode the tick sets currentTime to the system
\* time and applies no range policy.
C6_RangeApplied ==
    [][(/\ TickStep
        /\ clock.clockRange \in {CLAMPED, LOOP_STOP}
        /\ clock.startTime <= clock.stopTime
        /\ clock.canAnimate /\ clock.shouldAnimate) =>
         IF clock.clockStep = SYSTEM_CLOCK
         THEN clock'.currentTime = last'.arg.now
         ELSE /\ clock.startTime <= clock'.currentTime
              /\ clock'.currentTime <= clock.stopTime]_vars

\* C6 witness: a SYSTEM_CLOCK_MULTIPLIER tick running backwards from startTime,
\* brought back to startTime.
C6_Witness ==
    /\ Ticked
    /\ clock.clockRange \in {CLAMPED, LOOP_STOP}
    /\ last.pre.clockStep = SYSTEM_CLOCK_MULTIPLIER
    /\ clock.canAnimate /\ last.pre.shouldAnimate
    /\ last.pre.multiplier < 0
    /\ last.arg.milliseconds > 0
    /\ last.pre.currentTime = clock.startTime
    /\ clock.currentTime = clock.startTime

\* A step that assigns currentTime, multiplier or shouldAnimate.
SetterStep ==
    pc = "ready" /\ pc' = "ready" /\ last'.op \in {"currentTime", "multiplier", "shouldAnimate"}

\* The field the step assigns, before the step.
Assigned ==
    IF last'.op = "currentTime" THEN clock.currentTime
    ELSE IF last'.op = "multiplier" THEN clock.multiplier
    ELSE clock.shouldAnimate

\* C7 as claimed: any assignment to currentTime, multiplier or shouldAnimate made in
\* SYSTEM_CLOCK mode leaves clockStep SYSTEM_CLOCK_MULTIPLIER; made in another mode
\* it leaves clockStep as it was.
C7_AsClaimed ==
    [][SetterStep =>
         clock'.clockStep =
            IF clock.clockStep = SYSTEM_CLOCK THEN SYSTEM_CLOCK_MULTIPLIER
            ELSE clock.clockStep]_vars

\* C7 amended: an assignment to currentTime, multiplier or shouldAnimate of a value
\* other than the current one, made in SYSTEM_CLOCK mode, leaves clockStep
\* SYSTEM_CLOCK_MULTIPLIER; an assignment of the current value changes nothing, so
\* clockStep stays SYSTEM_CLOCK; made in another mode it leaves clockStep as it was.
C7_ChangeDemotesSystemClock ==
    [][SetterStep =>
         /\ clock'.clockStep =
               IF clock.clockStep = SYSTEM_CLOCK /\ last'.arg # Assigned
               THEN SYSTEM_CLOCK_MULTIPLIER
               ELSE clock.clockStep
         /\ last'.arg = Assigned => clock' = clock]_vars

\* C7 witness: currentTime assigned another value in SYSTEM_CLOCK mode.
C7_Witness ==
    /\ pc = "ready"
    /\ last.op = "currentTime"
    /\ last.pre.clockStep = SYSTEM_CLOCK
    /\ last.arg # last.pre.currentTime
    /\ clock.currentTime = last.arg
    /\ clock.clockStep = SYSTEM_CLOCK_MULTIPLIER

\* C8: assigning clockStep SYSTEM_CLOCK sets multiplier 1, shouldAnimate true,
\* currentTime to the system time and clockStep SYSTEM_CLOCK, from any state;
\* assigning another step mode changes clockStep alone.
C8_ClockStepSetter ==
    [][(pc = "ready" /\ pc' = "ready" /\ last'.op = "clockStep") =>
         /\ clock'.clockStep = last'.arg.value
         /\ IF last'.arg.value = SYSTEM_CLOCK
            THEN /\ clock'.multiplier = 1
                 /\ clock'.shouldAnimate = TRUE
                 /\ clock'.currentTime = last'.arg.now
            ELSE /\ clock'.multiplier = clock.multiplier
                 /\ clock'.shouldAnimate = clock.shouldAnimate
                 /\ clock'.currentTime = clock.currentTime]_vars

\* C8 witness: SYSTEM_CLOCK assigned to a paused clock with another multiplier.
C8_Witness ==
    /\ pc = "ready"
    /\ last.op = "clockStep"
    /\ last.arg.value = SYSTEM_CLOCK
    /\ last.pre.clockStep = TICK_DEPENDENT
    /\ last.pre.multiplier = MaxMultiplier
    /\ last.pre.shouldAnimate = FALSE
    /\ last.pre.currentTime # last.arg.now
    /\ clock.multiplier = 1 /\ clock.shouldAnimate = TRUE
    /\ clock.currentTime = last.arg.now

\* The defaulting chain of the construction, from the options of the last
\* construction and the system time it read.
ChainCurrentTime ==
    LET o == last.arg.opts IN
    IF o.currentTime # <<>> THEN o.currentTime[1]
    ELSE IF o.startTime # <<>> THEN o.startTime[1]
    ELSE IF o.stopTime # <<>> THEN o.stopTime[1] - SecondsPerDay * MsPerSecond
    ELSE last.arg.now

ChainStartTime ==
    LET o == last.arg.opts IN
    IF o.startTime # <<>> THEN o.startTime[1] ELSE ChainCurrentTime

ChainStopTime ==
    LET o == last.arg.opts IN
    IF o.stopTime # <<>> THEN o.stopTime[1] ELSE ChainStartTime + SecondsPerDay * MsPerSecond

\* C9: a construction whose resolved startTime is later than its resolved stopTime
\* throws and yields no clock; every constructed clock has startTime <= stopTime.
C9_ConstructorValidates ==
    last.op = "new" =>
        /\ pc \in {"ready", "error"}
        /\ ChainStartTime > ChainStopTime => pc = "error"
        /\ pc = "ready" => clock.startTime <= clock.stopTime

\* C9 witness: a construction that throws, with startTime defaulted from a
\* currentTime later than the stopTime.
C9_Witness ==
    /\ last.op = "new"
    /\ pc = "error"
    /\ last.arg.opts.startTime = <<>>
    /\ last.arg.opts.currentTime # <<>>
    /\ last.arg.opts.stopTime # <<>>
    /\ last.arg.opts.currentTime[1] > last.arg.opts.stopTime[1]

\* C10: the constructed clock has the startTime and stopTime of the defaulting
\* chain, and, unless its clockStep is SYSTEM_CLOCK, the chain's currentTime, also
\* when that lies outside the window.
C10_ConstructorDefaults ==
    (last.op = "new" /\ pc = "ready") =>
        /\ clock.startTime = ChainStartTime
        /\ clock.stopTime = ChainStopTime
        /\ clock.clockStep # SYSTEM_CLOCK => clock.currentTime = ChainCurrentTime

\* C10 witness: currentTime and a later startTime passed, stopTime defaulted to the
\* day after startTime; the clock starts before its window.
C10_Witness ==
    /\ last.op = "new" /\ pc = "ready"
    /\ last.arg.opts.currentTime = <<0>>
    /\ last.arg.opts.startTime = <<MsPerSecond * MaxOptTime>>
    /\ last.arg.opts.stopTime = <<>>
    /\ clock.clockStep # SYSTEM_CLOCK
    /\ clock.currentTime = 0
    /\ clock.currentTime < clock.startTime
    /\ clock.stopTime = clock.startTime + SecondsPerDay * MsPerSecond

\* ---- AssociativeArray ----
MaxLen == 3

\* defined(value): neither undefined nor null.
definedValue(v) == v \notin {"undefined", "null"}

\* a === b: NaN is identical to nothing, itself included.
StrictEquals(a, b) == a = b /\ a # "NaN"

AA_length(arr) == Len(arr)

AA_contains(h, key) == definedValue(h[key])

AA_get(h, key) == h[key]

\* Array.prototype.indexOf: the zero-based index of the first element identical
\* to v, or -1.
indexOf(arr, v) ==
    LET found == {i \in 1..Len(arr) : StrictEquals(arr[i], v)}
    IN  IF found = {} THEN -1
        ELSE (CHOOSE i \in found : \A j \in found : i <= j) - 1

\* Array.prototype.splice(start, 1): a negative start counts from the end.
Splice1(arr, start) ==
    LET n == Len(arr)
        from == IF start < 0 THEN (IF n + start < 0 THEN 0 ELSE n + start)
                ELSE (IF start > n THEN n ELSE start)
    IN  IF from >= n THEN arr
        ELSE [i \in 1..(n - 1) |-> IF i <= from THEN arr[i] ELSE arr[i + 1]]

AA_remove(arr, h, key) ==
    LET value == h[key]
        hasValue == definedValue(value)
    IN  IF hasValue
        THEN [array |-> Splice1(arr, indexOf(arr, value)),
              hash |-> [h EXCEPT ![key] = "undefined"], ret |-> TRUE]
        ELSE [array |-> arr, hash |-> h, ret |-> FALSE]

AA_set_InPlace(arr, h, key, value) ==
    LET oldValue == h[key]
        at == indexOf(arr, oldValue)
    IN  IF ~StrictEquals(value, oldValue)
        THEN IF at >= 0
             THEN [array |-> [arr EXCEPT ![at + 1] = value],
                   hash |-> [h EXCEPT ![key] = value]]
             ELSE [array |-> Append(arr, value),
                   hash |-> [h EXCEPT ![key] = value]]
        ELSE [array |-> arr, hash |-> h]

AA_set_Always(arr, h, key, value) ==
    LET removed == AA_remove(arr, h, key)
    IN  [array |-> Append(removed.array, value),
         hash |-> [removed.hash EXCEPT ![key] = value]]

AA_set(arr, h, key, value) ==
    LET oldValue == h[key]
        removed == AA_remove(arr, h, key)
    IN  IF ~StrictEquals(value, oldValue)
        THEN [array |-> Append(removed.array, value),
              hash |-> [removed.hash EXCEPT ![key] = value]]
        ELSE [array |-> arr, hash |-> h]

AA_removeAll(arr, h) ==
    IF Len(arr) > 0 THEN [array |-> <<>>, hash |-> EmptyHash]
    ELSE [array |-> arr, hash |-> h]

AACall(op, key, value, ret) ==
    [op |-> op, key |-> key, value |-> value, ret |-> ret,
     array |-> array, hash |-> hash]

Set ==
    \E key \in Keys, value \in Values :
        LET r == AA_set(array, hash, key, value)
        IN  /\ Len(r.array) <= MaxLen
            /\ array' = r.array
            /\ hash' = r.hash
            /\ aaLast' = AACall("set", key, value, FALSE)
            /\ UNCHANGED <<clockVars, call>>

Remove ==
    \E key \in Keys :
        LET r == AA_remove(array, hash, key)
        IN  /\ array' = r.array
            /\ hash' = r.hash
            /\ aaLast' = AACall("remove", key, "undefined", r.ret)
            /\ UNCHANGED <<clockVars, call>>

RemoveAll ==
    LET r == AA_removeAll(array, hash)
    IN  /\ array' = r.array
        /\ hash' = r.hash
        /\ aaLast' = AACall("removeAll", "a", "undefined", FALSE)
        /\ UNCHANGED <<clockVars, call>>

AANext ==
    \/ Set
    \/ Remove
    \/ RemoveAll

AASpec == Init /\ [][AANext]_vars

\* ---- claims about AssociativeArray ----
Count(arr, v) == Cardinality({i \in 1..Len(arr) : arr[i] = v})

Contained(h) == {k \in Keys : AA_contains(h, k)}

\* C11: after any sequence of set, remove and removeAll, length equals
\* values.length and equals the number of keys k for which contains(k) is true.
C11_AsClaimed ==
    /\ AA_length(array) = Len(array)
    /\ AA_length(array) = Cardinality(Contained(hash))

\* C12: the value sequence and the hash agree: every value stored under a key
\* appears in values once for each key that holds it, and every element of
\* values is the value that get returns for one key of its own.
C12_AsClaimed ==
    \A v \in Values :
        Count(array, v) = Cardinality({k \in Contained(hash) : AA_get(hash, k) = v})

\* The call recorded in aaLast was set(key, value) on a contained key whose
\* stored value is not identical to value.
Overwrote ==
    /\ aaLast.op = "set"
    /\ AA_contains(aaLast.hash, aaLast.key)
    /\ ~StrictEquals(aaLast.value, aaLast.hash[aaLast.key])

\* C13 as stated: set on an existing key with a different value keeps the
\* length of values and puts the new value at the old value's position.
C13_AsClaimed ==
    Overwrote =>
        /\ Len(array) = Len(aaLast.array)
        /\ \E i \in 1..Len(aaLast.array) :
               /\ aaLast.array[i] = aaLast.hash[aaLast.key]
               /\ array = [aaLast.array EXCEPT ![i] = aaLast.value]

\* C13: set on a contained key with a value not identical to the stored one
\* keeps the length of values, makes the new value the last element of values,
\* and makes get(key) return it.
C13_OverwriteAppends ==
    Overwrote =>
        /\ Len(array) = Len(aaLast.array)
        /\ array[Len(array)] = aaLast.value
        /\ AA_get(hash, aaLast.key) = aaLast.value

C13_Witness ==
    /\ Overwrote
    /\ Len(aaLast.array) = 2
    /\ aaLast.array[1] = aaLast.hash[aaLast.key]
    /\ aaLast.array[1] = "v1"
    /\ array = <<aaLast.array[2], "v2">>

\* C14: set(key, value) with a value identical (===) to the value stored under
\* key leaves values and the hash as they were.
C14_SameValueNoChange ==
    (aaLast.op = "set" /\ StrictEquals(aaLast.value, aaLast.hash[aaLast.key])) =>
        /\ array = aaLast.array
        /\ hash = aaLast.hash

C14_Witness ==
    /\ aaLast.op = "set"
    /\ aaLast.value = "v1"
    /\ aaLast.hash[aaLast.key] = "v1"
    /\ aaLast.array = <<"v1", "v2">>
    /\ array = <<"v1", "v2">>

RemoveAt(arr, i) == [j \in 1..(Len(arr) - 1) |-> IF j < i THEN arr[j] ELSE arr[j + 1]]

\* C15: remove(key) returns true exactly when the key was contained; then
\* get(key) is undefined, contains(key) is false, exactly one element, that
\* key's value, has left values, and every other key's mapping and the order of
\* the remaining values are as before; otherwise it returns false and changes
\* nothing.
C15_AsClaimed ==
    aaLast.op = "remove" =>
        /\ aaLast.ret = AA_contains(aaLast.hash, aaLast.key)
        /\ aaLast.ret =>
               /\ AA_get(hash, aaLast.key) = "undefined"
               /\ ~AA_contains(hash, aaLast.key)
               /\ \A k \in Keys \ {aaLast.key} : hash[k] = aaLast.hash[k]
               /\ \E i \in 1..Len(aaLast.array) :
                      /\ aaLast.array[i] = aaLast.hash[aaLast.key]
                      /\ array = RemoveAt(aaLast.array, i)
        /\ ~aaLast.ret => (array = aaLast.array /\ hash = aaLast.hash)

\* ---- BoundingRectangle.union ----
MaxRect == 1

MathMin(a, b) == IF a <= b THEN a ELSE b

MathMax(a, b) == IF a >= b THEN a ELSE b

BoundingRectangle(x, y, width, height) ==
    [x |-> x, y |-> y, width |-> width, height |-> height]

\* Rectangles as the constructor accepts them: width and height of either sign.
Rectangles ==
    {BoundingRectangle(x, y, w, h) :
        x \in 0..MaxRect, y \in 0..MaxRect, w \in -MaxRect..MaxRect, h \in -MaxRect..MaxRect}

\* The objects a call of union sees: left is L, right is R; the result parameter
\* is L, R, an earlier result N, or undefined.
ResultRefs == {"L", "R", "N"}

UsedResult == BoundingRectangle(1, 1, 1, 1)

\* The object union writes to: the result parameter, or a new BoundingRectangle().
UnionTarget(heap, result) ==
    IF result = Undefined THEN [ref |-> "N", heap |-> [heap EXCEPT !["N"] = BoundingRectangle(0, 0, 0, 0)]]
    ELSE [ref |-> result[1], heap |-> heap]

union_WriteFirst(heap, result) ==
    LET t == UnionTarget(heap, result)
        lowerLeftX == MathMin(t.heap["L"].x, t.heap["R"].x)
        lowerLeftY == MathMin(t.heap["L"].y, t.heap["R"].y)
        h1 == [t.heap EXCEPT ![t.ref].x = lowerLeftX, ![t.ref].y = lowerLeftY]
        upperRightX == MathMax(h1["L"].x + h1["L"].width, h1["R"].x + h1["R"].width)
        upperRightY == MathMax(h1["L"].y + h1["L"].height, h1["R"].y + h1["R"].height)
    IN  [ref |-> t.ref,
         heap |-> [h1 EXCEPT ![t.ref].width = upperRightX - lowerLeftX,
                             ![t.ref].height = upperRightY - lowerLeftY]]

union(heap, result) ==
    LET t == UnionTarget(heap, result)
        left == t.heap["L"]
        right == t.heap["R"]
        lowerLeftX == MathMin(left.x, right.x)
        lowerLeftY == MathMin(left.y, right.y)
        upperRightX == MathMax(left.x + left.width, right.x + right.width)
        upperRightY == MathMax(left.y + left.height, right.y + right.height)
    IN  [ref |-> t.ref,
         heap |-> [t.heap EXCEPT ![t.ref] =
                      BoundingRectangle(lowerLeftX, lowerLeftY,
                                        upperRightX - lowerLeftX,
                                        upperRightY - lowerLeftY)]]

UnionInit ==
    /\ ClockNew
    /\ AANew
    /\ \E left \in Rectangles, right \in Rectangles, result \in Opt(ResultRefs) :
           call = [fn |-> "union", done |-> FALSE, left |-> left, right |-> right,
                   result |-> result,
                   heap |-> [o \in ResultRefs |->
                                IF o = "L" THEN left ELSE IF o = "R" THEN right
                                ELSE UsedResult],
                   ret |-> "N"]

Union ==
    /\ call.fn = "union"
    /\ ~call.done
    /\ LET r == union(call.heap, call.result)
       IN  call' = [call EXCEPT !.done = TRUE, !.heap = r.heap, !.ret = r.ref]
    /\ UNCHANGED <<clockVars, aaVars>>

UnionNext == Union

UnionSpec == UnionInit /\ [][UnionNext]_vars

\* ---- claims about BoundingRectangle.union ----
Corners(r) ==
    {<<r.x, r.y>>, <<r.x + r.width, r.y>>,
     <<r.x, r.y + r.height>>, <<r.x + r.width, r.y + r.height>>}

Within(p, u) ==
    /\ u.x <= p[1] /\ p[1] <= u.x + u.width
    /\ u.y <= p[2] /\ p[2] <= u.y + u.height

UnionContainsBoth ==
    \A p \in Corners(call.left) \cup Corners(call.right) : Within(p, call.heap[call.ret])

NonNegative(r) == r.width >= 0 /\ r.height >= 0

\* C16 as stated: for any two rectangles A and B, all four corners of A and of
\* B lie within union(A, B), also when the result object is A or B.
C16_AsClaimed ==
    (call.fn = "union" /\ call.done) => UnionContainsBoth

\* C16: for rectangles A and B whose width and height are not negative (and
\* whose sums and differences of coordinates are exact), all four corners of A
\* and of B lie within union(A, B), also when the result object is A or B.
C16_UnionContains ==
    (call.fn = "union" /\ call.done /\ NonNegative(call.left) /\ NonNegative(call.right))
        => UnionContainsBoth

C16_Witness ==
    /\ call.fn = "union" /\ call.done
    /\ call.result = <<"L">>
    /\ call.left = BoundingRectangle(1, 1, 1, 1)
    /\ call.right = BoundingRectangle(0, 0, 1, 0)
    /\ call.heap["L"] = BoundingRectangle(0, 0, 2, 2)

\* ---- AxisAlignedBoundingBox.fromPoints ----
MaxPoints == 2

Cartesian3(x, y, z) == [x |-> x, y |-> y, z |-> z]

ZERO == Cartesian3(0, 0, 0)

\* Cartesian3.midpoint: (left + right) * 0.5 in each component. Coordinates are
\* even integers, so that the midpoint is an integer.
midpoint(left, right) ==
    Cartesian3((left.x + right.x) \div 2, (left.y + right.y) \div 2,
               (left.z + right.z) \div 2)

Coordinates == {-2, 0, 2}

Points == {Cartesian3(x, y, z) : x \in Coordinates, y \in Coordinates, z \in Coordinates}

RECURSIVE ListsOf(_, _)
ListsOf(S, n) ==
    IF n = 0 THEN {<<>>}
    ELSE LET shorter == ListsOf(S, n - 1)
         IN  shorter \cup {Append(l, p) : l \in {s \in shorter : Len(s) = n - 1}, p \in S}

PointLists == ListsOf(Points, MaxPoints)

AxisAlignedBoundingBox(minimum, maximum, center) ==
    [minimum |-> minimum, maximum |-> maximum, center |-> center]

\* A box that an earlier call has filled.
UsedBox ==
    AxisAlignedBoundingBox(Cartesian3(-2, -2, 0), Cartesian3(2, 0, 2), Cartesian3(0, -1, 1))

\* The extent of positions[1..i] in the loop's variables, positions[1] first.
RECURSIVE ScanFrom(_, _, _)
ScanFrom(positions, i, first) ==
    IF i = 1
    THEN [minimumX |-> first.x, minimumY |-> first.y, minimumZ |-> first.z,
          maximumX |-> first.x, maximumY |-> first.y, maximumZ |-> first.z]
    ELSE LET e == ScanFrom(positions, i - 1, first)
             p == positions[i]
         IN  [minimumX |-> MathMin(p.x, e.minimumX), maximumX |-> MathMax(p.x, e.maximumX),
              minimumY |-> MathMin(p.y, e.minimumY), maximumY |-> MathMax(p.y, e.maximumY),
              minimumZ |-> MathMin(p.z, e.minimumZ), maximumZ |-> MathMax(p.z, e.maximumZ)]

Scan_FromOrigin(positions) == ScanFrom(positions, Len(positions), ZERO)

Scan(positions) == ScanFrom(positions, Len(positions), positions[1])

fromPoints(positions, result) ==
    LET box == IF result = Undefined THEN AxisAlignedBoundingBox(ZERO, ZERO, midpoint(ZERO, ZERO))
               ELSE result[1]
    IN  IF positions = Undefined \/ Len(positions[1]) = 0
        THEN [box EXCEPT !.minimum = ZERO, !.maximum = ZERO, !.center = ZERO]
        ELSE LET e == Scan(positions[1])
                 minimum == Cartesian3(e.minimumX, e.minimumY, e.minimumZ)
                 maximum == Cartesian3(e.maximumX, e.maximumY, e.maximumZ)
             IN  [box EXCEPT !.minimum = minimum, !.maximum = maximum,
                             !.center = midpoint(minimum, maximum)]

FromPointsInit ==
    /\ ClockNew
    /\ AANew
    /\ \E positions \in Opt(PointLists), result \in Opt({UsedBox}) :
           call = [fn |-> "fromPoints", done |-> FALSE, positions |-> positions,
                   result |-> result, ret |-> UsedBox]

FromPoints ==
    /\ call.fn = "fromPoints"
    /\ ~call.done
    /\ call' = [call EXCEPT !.done = TRUE, !.ret = fromPoints(call.positions, call.result)]
    /\ UNCHANGED <<clockVars, aaVars>>

FromPointsNext == FromPoints

FromPointsSpec == FromPointsInit /\ [][FromPointsNext]_vars

\* ---- claims about AxisAlignedBoundingBox.fromPoints ----
Axes == {"x", "y", "z"}

\* C17: for a non-empty list of points fromPoints returns a box with
\* minimum <= p <= maximum in each component for every point p, each component
\* of minimum and of maximum attained by some point, and center the midpoint of
\* minimum and maximum; for an empty or undefined list it returns the box with
\* minimum = maximum = center = (0,0,0); both also when a used box is passed.
C17_FromPoints ==
    (call.fn = "fromPoints" /\ call.done) =>
        IF call.positions # Undefined /\ Len(call.positions[1]) > 0
        THEN LET ps == call.positions[1]
             IN  /\ \A i \in 1..Len(ps), a \in Axes :
                        call.ret.minimum[a] <= ps[i][a] /\ ps[i][a] <= call.ret.maximum[a]
                 /\ \A a \in Axes :
                        /\ \E i \in 1..Len(ps) : ps[i][a] = call.ret.minimum[a]
                        /\ \E i \in 1..Len(ps) : ps[i][a] = call.ret.maximum[a]
                 /\ \A a \in Axes :
                        2 * call.ret.center[a] = call.ret.minimum[a] + call.ret.maximum[a]
        ELSE call.ret = AxisAlignedBoundingBox(ZERO, ZERO, ZERO)

C17_Witness ==
    /\ call.fn = "fromPoints" /\ call.done
    /\ call.positions = <<(<<Cartesian3(2, 0, -2), Cartesian3(-2, 2, 0)>>)>>
    /\ call.result = <<UsedBox>>
    /\ call.ret = AxisAlignedBoundingBox(Cartesian3(-2, 0, -2), Cartesian3(2, 2, 0),
                                         Cartesian3(0, 1, -1))

\* ---- pack and unpack of Matrix2, BoundingRectangle, DistanceDisplayCondition ----
MaxComponent == 1
MaxOffset == 3
BufferLength == 6

\* new Matrix2(column0Row0, column1Row0, column0Row1, column1Row1): the
\* elements are stored by column.
Matrix2(column0Row0, column1Row0, column0Row1, column1Row1) ==
    [i \in 0..3 |->
        IF i = 0 THEN column0Row0 ELSE IF i = 1 THEN column0Row1
        ELSE IF i = 2 THEN column1Row0 ELSE column1Row1]

DistanceDisplayCondition(near, far) == [near |-> near, far |-> far]

\* Number.MAX_VALUE: larger than every component drawn here.
MAX_VALUE == MaxComponent + 2

Components == 0..MaxComponent

Packables ==
    [Matrix2 |-> {Matrix2(a, b, c, d) : a \in Components, b \in Components,
                                        c \in Components, d \in Components},
     BoundingRectangle |-> {BoundingRectangle(a, b, c, d) :
                               a \in Components, b \in Components,
                               c \in Components, d \in Components},
     DistanceDisplayCondition |-> {DistanceDisplayCondition(a, b) :
                                      a \in Components, b \in Components}]

Classes == DOMAIN Packables

packedLength(class) == IF class = "DistanceDisplayCondition" THEN 2 ELSE 4

\* A JavaScript array: element i of the array is arr[i + 1]; a slot is <<n>>,
\* or Undefined for a hole.
OldSlot == <<MaxComponent + 1>>

Buffers == {<<>>, [i \in 1..BufferLength |-> OldSlot]}

\* array[index] = n: writing past the end lengthens the array, leaving holes.
ArraySet(arr, index, n) ==
    [i \in 1..MathMax(Len(arr), index + 1) |->
        IF i = index + 1 THEN <<n>> ELSE IF i <= Len(arr) THEN arr[i] ELSE Undefined]

\* array[index]: undefined for a hole and past the end.
ArrayGet(arr, index) ==
    IF index < Len(arr) /\ arr[index + 1] # Undefined THEN arr[index + 1][1] ELSE Undefined

StartingIndex(startingIndex) == OrElse(startingIndex, 0)

Matrix2_pack(value, arr, startingIndex) ==
    LET s == StartingIndex(startingIndex)
        a0 == ArraySet(arr, s, value[0])
        a1 == ArraySet(a0, s + 1, value[1])
        a2 == ArraySet(a1, s + 2, value[2])
    IN  ArraySet(a2, s + 3, value[3])

Matrix2_unpack(arr, startingIndex) ==
    LET s == StartingIndex(startingIndex)
        new == Matrix2(0, 0, 0, 0)
    IN  [new EXCEPT ![0] = ArrayGet(arr, s), ![1] = ArrayGet(arr, s + 1),
                    ![2] = ArrayGet(arr, s + 2), ![3] = ArrayGet(arr, s + 3)]

BoundingRectangle_pack(value, arr, startingIndex) ==
    LET s == StartingIndex(startingIndex)
        a0 == ArraySet(arr, s, value.x)
        a1 == ArraySet(a0, s + 1, value.y)
        a2 == ArraySet(a1, s + 2, value.width)
    IN  ArraySet(a2, s + 3, value.height)

BoundingRectangle_unpack(arr, startingIndex) ==
    LET s == StartingIndex(startingIndex)
        new == BoundingRectangle(0, 0, 0, 0)
    IN  [new EXCEPT !.x = ArrayGet(arr, s), !.y = ArrayGet(arr, s + 1),
                    !.width = ArrayGet(arr, s + 2), !.height = ArrayGet(arr, s + 3)]

DistanceDisplayCondition_pack_SameSlot(value, arr, startingIndex) ==
    LET s == StartingIndex(startingIndex)
        a0 == ArraySet(arr, s, value.near)
    IN  ArraySet(a0, s, value.far)

DistanceDisplayCondition_pack(value, arr, startingIndex) ==
    LET s == StartingIndex(startingIndex)
        a0 == ArraySet(arr, s, value.near)
    IN  ArraySet(a0, s + 1, value.far)

DistanceDisplayCondition_unpack(arr, startingIndex) ==
    LET s == StartingIndex(startingIndex)
        new == DistanceDisplayCondition(0, MAX_VALUE)
    IN  [new EXCEPT !.near = ArrayGet(arr, s), !.far = ArrayGet(arr, s + 1)]

pack(class, value, arr, startingIndex) ==
    IF class = "Matrix2" THEN Matrix2_pack(value, arr, startingIndex)
    ELSE IF class = "BoundingRectangle" THEN BoundingRectangle_pack(value, arr, startingIndex)
    ELSE DistanceDisplayCondition_pack(value, arr, startingIndex)

unpack(class, arr, startingIndex) ==
    IF class = "Matrix2" THEN Matrix2_unpack(arr, startingIndex)
    ELSE IF class = "BoundingRectangle" THEN BoundingRectangle_unpack(arr, startingIndex)
    ELSE DistanceDisplayCondition_unpack(arr, startingIndex)

PackInit ==
    /\ ClockNew
    /\ AANew
    /\ \E class \in Classes, arr \in Buffers, startingIndex \in Opt(0..MaxOffset) :
           \E value \in Packables[class] :
               call = [fn |-> "pack", stage |-> "args", class |-> class, value |-> value,
                       array |-> arr, startingIndex |-> startingIndex,
                       packed |-> arr, unpacked |-> value]

Pack ==
    /\ call.fn = "pack"
    /\ call.stage = "args"
    /\ call' = [call EXCEPT !.stage = "packed",
                            !.packed = pack(call.class, call.value, call.array,
                                            call.startingIndex)]
    /\ UNCHANGED <<clockVars, aaVars>>

Unpack ==
    /\ call.fn = "pack"
    /\ call.stage = "packed"
    /\ call' = [call EXCEPT !.stage = "unpacked",
                            !.unpacked = unpack(call.class, call.packed, call.startingIndex)]
    /\ UNCHANGED <<clockVars, aaVars>>

PackNext ==
    \/ Pack
    \/ Unpack

PackSpec == PackInit /\ [][PackNext]_vars

\* ---- claims about pack and unpack ----
\* The components of a value in the order of its packed form.
ComponentOrder(class, value) ==
    IF class = "Matrix2" THEN <<value[0], value[1], value[2], value[3]>>
    ELSE IF class = "BoundingRectangle" THEN <<value.x, value.y, value.width, value.height>>
    ELSE <<value.near, value.far>>

IDENTITY == Matrix2(1, 0, 0, 1)

Entries == -1..MaxComponent

Matrices == {Matrix2(a, b, c, d) : a \in Entries, b \in Entries, c \in Entries, d \in Entries}

UsedMatrix == Matrix2(1, 1, 1, 1)

\* left is the object L, right the object R; result is L, R or a third object N.
multiply_WriteEarly(heap, result) ==
    LET column0Row0 == heap["L"][0] * heap["R"][0] + heap["L"][2] * heap["R"][1]
        column0Row1 == heap["L"][1] * heap["R"][0] + heap["L"][3] * heap["R"][1]
        h1 == [heap EXCEPT ![result][0] = column0Row0, ![result][1] = column0Row1]
        column1Row0 == h1["L"][0] * h1["R"][2] + h1["L"][2] * h1["R"][3]
        column1Row1 == h1["L"][1] * h1["R"][2] + h1["L"][3] * h1["R"][3]
    IN  [h1 EXCEPT ![result][2] = column1Row0, ![result][3] = column1Row1]

multiply(heap, result) ==
    LET left == heap["L"]
        right == heap["R"]
        column0Row0 == left[0] * right[0] + left[2] * right[1]
        column1Row0 == left[0] * right[2] + left[2] * right[3]
        column0Row1 == left[1] * right[0] + left[3] * right[1]
        column1Row1 == left[1] * right[2] + left[3] * right[3]
    IN  [heap EXCEPT ![result] =
            [i \in 0..3 |->
                IF i = 0 THEN column0Row0 ELSE IF i = 1 THEN column0Row1
                ELSE IF i = 2 THEN column1Row0 ELSE column1Row1]]

MultiplyInit ==
    /\ ClockNew
    /\ AANew
    /\ \E left \in Matrices, right \in Matrices, result \in ResultRefs :
           call = [fn |-> "multiply", done |-> FALSE, left |-> left, right |-> right,
                   result |-> result,
                   heap |-> [o \in ResultRefs |->
                                IF o = "L" THEN left ELSE IF o = "R" THEN right
                                ELSE UsedMatrix]]

Multiply ==
    /\ call.fn = "multiply"
    /\ ~call.done
    /\ call' = [call EXCEPT !.done = TRUE, !.heap = multiply(call.heap, call.result)]
    /\ UNCHANGED <<clockVars, aaVars>>

MultiplyNext == Multiply

MultiplySpec == MultiplyInit /\ [][MultiplyNext]_vars

\* ---- claims about Matrix2.multiply ----
\* The matrix product l * r, with the element of column c and row r stored at
\* index c * 2 + r.
Product(l, r) ==
    [i \in 0..3 |->
        LET col == i \div 2
            row == i % 2
        IN  l[0 * 2 + row] * r[col * 2 + 0] + l[1 * 2 + row] * r[col * 2 + 1]]

MaxPlaneDistance == 2

\* A plane's normal and distance are held as numerators over Scale, so that unit
\* normals such as (3/5, 4/5, 0) are integers; s and e below carry the same
\* factor, which leaves their signs as they are.
Scale == 5

INSIDE == "INSIDE"
OUTSIDE == "OUTSIDE"
INTERSECTING == "INTERSECTING"

subtract(left, right) == Cartesian3(left.x - right.x, left.y - right.y, left.z - right.z)

\* multiplyByScalar(cartesian, 0.5) on even coordinates.
multiplyByHalf(cartesian) == Cartesian3(cartesian.x \div 2, cartesian.y \div 2, cartesian.z \div 2)

dot(left, right) == left.x * right.x + left.y * right.y + left.z * right.z

MathAbs(a) == IF a < 0 THEN -a ELSE a

Plane(normal, distance) == [normal |-> normal, distance |-> distance]

Numerators == {-5, -4, -3, 0, 3, 4, 5}

UnitNormals ==
    {n \in {Cartesian3(x, y, z) : x \in Numerators, y \in Numerators, z \in Numerators} :
        dot(n, n) = Scale * Scale}

Planes ==
    {Plane(n, d) : n \in UnitNormals,
                   d \in (-Scale * MaxPlaneDistance)..(Scale * MaxPlaneDistance)}

\* Boxes as the constructor builds them from two corners: center is the
\* midpoint, and minimum need not be below maximum.
Boxes == {AxisAlignedBoundingBox(lo, hi, midpoint(lo, hi)) : lo \in Points, hi \in Points}

intersectPlane_NoAbs(box, plane) ==
    LET h == multiplyByHalf(subtract(box.maximum, box.minimum))
        normal == plane.normal
        e == h.x * normal.x + h.y * normal.y + h.z * normal.z
        s == dot(box.center, normal) + plane.distance
    IN  IF s - e > 0 THEN INSIDE
        ELSE IF s + e < 0 THEN OUTSIDE
        ELSE INTERSECTING

intersectPlane(box, plane) ==
    LET h == multiplyByHalf(subtract(box.maximum, box.minimum))
        normal == plane.normal
        e == h.x * MathAbs(normal.x) + h.y * MathAbs(normal.y) + h.z * MathAbs(normal.z)
        s == dot(box.center, normal) + plane.distance
    IN  IF s - e > 0 THEN INSIDE
        ELSE IF s + e < 0 THEN OUTSIDE
        ELSE INTERSECTING

IntersectPlaneInit ==
    /\ ClockNew
    /\ AANew
    /\ \E box \in Boxes, plane \in Planes :
           call = [fn |-> "intersectPlane", done |-> FALSE, box |-> box, plane |-> plane,
                   ret |-> INTERSECTING]

IntersectPlane ==
    /\ call.fn = "intersectPlane"
    /\ ~call.done
    /\ call' = [call EXCEPT !.done = TRUE, !.ret = intersectPlane(call.box, call.plane)]
    /\ UNCHANGED <<clockVars, aaVars>>

IntersectPlaneNext == IntersectPlane

IntersectPlaneSpec == IntersectPlaneInit /\ [][IntersectPlaneNext]_vars

\* ---- claims about AxisAlignedBoundingBox.intersectPlane ----
BoxCorners(box) ==
    {Cartesian3(cx.x, cy.y, cz.z) :
        cx \in {box.minimum, box.maximum}, cy \in {box.minimum, box.maximum},
        cz \in {box.minimum, box.maximum}}

\* The signed distance of a point to the plane, times Scale.
SignedDistance(plane, p) == dot(p, plane.normal) + plane.distance

Classified ==
    LET ds == {SignedDistance(call.plane, p) : p \in BoxCorners(call.box)}
    IN  /\ call.ret = INSIDE <=> \A d \in ds : d > 0
        /\ call.ret = OUTSIDE <=> \A d \in ds : d < 0
        /\ call.ret \in {INSIDE, OUTSIDE, INTERSECTING}

Ordered(box) ==
    /\ box.minimum.x <= box.maximum.x
    /\ box.minimum.y <= box.maximum.y
    /\ box.minimum.z <= box.maximum.z

\* C20 as stated: for a box whose center is the midpoint of minimum and maximum
\* and a plane with unit normal, intersectPlane returns INSIDE exactly when all
\* eight corners have positive signed distance, OUTSIDE exactly when all have
\* negative signed distance, and INTERSECTING otherwise.
C20_AsClaimed ==
    (call.fn = "intersectPlane" /\ call.done) => Classified

\* C20: for a box with minimum <= maximum in each component whose center is the
\* midpoint of minimum and maximum, and a plane with unit normal, intersectPlane
\* returns INSIDE exactly when all eight corners have positive signed distance,
\* OUTSIDE exactly when all have negative signed distance, and INTERSECTING
\* otherwise, a corner lying on the plane included.
C20_IntersectPlane ==
    (call.fn = "intersectPlane" /\ call.done /\ Ordered(call.box)) => Classified

C20_Witness ==
    /\ call.fn = "intersectPlane" /\ call.done
    /\ call.box.minimum = Cartesian3(0, 0, 0)
    /\ call.box.maximum = Cartesian3(2, 2, 2)
    /\ call.plane = Plane(Cartesian3(-3, 0, -4), 6)
    /\ \E p \in BoxCorners(call.box) : SignedDistance(call.plane, p) = 0
    /\ call.ret = INTERSECTING

\* ---- Matrix2 factories with an optional result ----
Cartesian2(x, y) == [x |-> x, y |-> y]

\* Angles are quarter turns, whose cosine and sine are integers.
QuarterTurns == 0..3

MathCos(angle) == IF angle = 0 THEN 1 ELSE IF angle = 2 THEN -1 ELSE 0

MathSin(angle) == IF angle = 1 THEN 1 ELSE IF angle = 3 THEN -1 ELSE 0

\* What a factory hands back: ret tells which object is returned ("result" for
\* the result parameter, "new" for a new matrix, "undefined" for none), value is
\* that object's content, and result is the result parameter after the call.
Returned(ret, value, result) == [ret |-> ret, value |-> value, result |-> result]

Matrix2_clone(matrix, result) ==
    IF matrix = Undefined THEN Returned("undefined", Undefined, result)
    ELSE IF result = Undefined
    THEN Returned("new", Matrix2(matrix[1][0], matrix[1][2], matrix[1][1], matrix[1][3]), result)
    ELSE LET written == [result[1] EXCEPT ![0] = matrix[1][0], ![1] = matrix[1][1],
                                          ![2] = matrix[1][2], ![3] = matrix[1][3]]
         IN  Returned("result", written, <<written>>)

Matrix2_fromColumnMajorArray(values, result) == Matrix2_clone(<<values>>, result)

Matrix2_fromRowMajorArray_NoTranspose(values, result) ==
    IF result = Undefined
    THEN Returned("new", Matrix2(values[0], values[1], values[2], values[3]), result)
    ELSE LET written == [result[1] EXCEPT ![0] = values[0], ![1] = values[1],
                                          ![2] = values[2], ![3] = values[3]]
         IN  Returned("result", written, <<written>>)

Matrix2_fromRowMajorArray(values, result) ==
    IF result = Undefined
    THEN Returned("new", Matrix2(values[0], values[1], values[2], values[3]), result)
    ELSE LET written == [result[1] EXCEPT ![0] = values[0], ![1] = values[2],
                                          ![2] = values[1], ![3] = values[3]]
         IN  Returned("result", written, <<written>>)

Matrix2_fromScale(scale, result) ==
    IF result = Undefined
    THEN Returned("new", Matrix2(scale.x, 0, 0, scale.y), result)
    ELSE LET written == [result[1] EXCEPT ![0] = scale.x, ![1] = 0, ![2] = 0, ![3] = scale.y]
         IN  Returned("result", written, <<written>>)

Matrix2_fromUniformScale(scale, result) ==
    IF result = Undefined
    THEN Returned("new", Matrix2(scale, 0, 0, scale), result)
    ELSE LET written == [result[1] EXCEPT ![0] = scale, ![1] = 0, ![2] = 0, ![3] = scale]
         IN  Returned("result", written, <<written>>)

Matrix2_fromRotation(angle, result) ==
    LET cosAngle == MathCos(angle)
        sinAngle == MathSin(angle)
    IN  IF result = Undefined
        THEN Returned("new", Matrix2(cosAngle, -sinAngle, sinAngle, cosAngle), result)
        ELSE LET written == [result[1] EXCEPT ![0] = cosAngle, ![1] = sinAngle,
                                              ![2] = -sinAngle, ![3] = cosAngle]
             IN  Returned("result", written, <<written>>)

\* Matrix2.unpack with its result parameter.
Matrix2_unpackInto(arr, startingIndex, result) ==
    LET s == StartingIndex(startingIndex)
        target == IF result = Undefined THEN Matrix2(0, 0, 0, 0) ELSE result[1]
        written == [target EXCEPT ![0] = ArrayGet(arr, s), ![1] = ArrayGet(arr, s + 1),
                                  ![2] = ArrayGet(arr, s + 2), ![3] = ArrayGet(arr, s + 3)]
    IN  IF result = Undefined THEN Returned("new", written, result)
        ELSE Returned("result", written, <<written>>)

Factories ==
    {"clone", "fromColumnMajorArray", "fromRowMajorArray", "fromScale",
     "fromUniformScale", "fromRotation", "unpack"}

\* A packed matrix behind one other slot.
PackedArrays ==
    {<<OldSlot, <<m[0]>>, <<m[1]>>, <<m[2]>>, <<m[3]>> >> : m \in Matrices}

FactoryInputs(name) ==
    IF name = "clone" THEN Opt(Matrices)
    ELSE IF name \in {"fromColumnMajorArray", "fromRowMajorArray"} THEN Matrices
    ELSE IF name = "fromScale" THEN {Cartesian2(x, y) : x \in Entries, y \in Entries}
    ELSE IF name = "fromUniformScale" THEN Entries
    ELSE IF name = "fromRotation" THEN QuarterTurns
    ELSE {[array |-> a, startingIndex |-> s] : a \in PackedArrays, s \in Opt(0..1)}

Factory(name, input, result) ==
    IF name = "clone" THEN Matrix2_clone(input, result)
    ELSE IF name = "fromColumnMajorArray" THEN Matrix2_fromColumnMajorArray(input, result)
    ELSE IF name = "fromRowMajorArray" THEN Matrix2_fromRowMajorArray(input, result)
    ELSE IF name = "fromScale" THEN Matrix2_fromScale(input, result)
    ELSE IF name = "fromUniformScale" THEN Matrix2_fromUniformScale(input, result)
    ELSE IF name = "fromRotation" THEN Matrix2_fromRotation(input, result)
    ELSE Matrix2_unpackInto(input.array, input.startingIndex, result)

NotCalled == Returned("none", Undefined, Undefined)

FactoryInit ==
    /\ ClockNew
    /\ AANew
    /\ \E name \in Factories :
           \E input \in FactoryInputs(name) :
               call = [fn |-> "factory", name |-> name, input |-> input,
                       fresh |-> NotCalled, inPlace |-> NotCalled]

\* The call that omits the result.
FactoryFresh ==
    /\ call.fn = "factory"
    /\ call.fresh = NotCalled
    /\ call' = [call EXCEPT !.fresh = Factory(call.name, call.input, Undefined)]
    /\ UNCHANGED <<clockVars, aaVars>>

\* The call that supplies a used matrix as the result.
FactoryInPlace ==
    /\ call.fn = "factory"
    /\ call.inPlace = NotCalled
    /\ call' = [call EXCEPT !.inPlace = Factory(call.name, call.input, <<UsedMatrix>>)]
    /\ UNCHANGED <<clockVars, aaVars>>

FactoryNext ==
    \/ FactoryFresh
    \/ FactoryInPlace

FactorySpec == FactoryInit /\ [][FactoryNext]_vars

\* ---- claims about the Matrix2 factories ----
BothCalled == call.fn = "factory" /\ call.fresh # NotCalled /\ call.inPlace # NotCalled

SamePaths ==
    /\ call.inPlace.ret = "result"
    /\ call.inPlace.result = <<call.inPlace.value>>
    /\ call.fresh.ret = "new"
    /\ call.fresh.value = call.inPlace.value

\* C21 as stated: each factory with an optional result mutates and returns the
\* supplied result, returns a new matrix when the result is omitted, and both
\* matrices are equal.
C21_AsClaimed == BothCalled => SamePaths

\* C21: for a defined input each factory with an optional result mutates and
\* returns the supplied result, returns a new matrix when the result is
\* omitted, and both matrices are equal; clone of an undefined matrix returns
\* undefined on both paths and leaves the supplied result as it was.
C21_FactoryPaths ==
    BothCalled =>
        IF call.name = "clone" /\ call.input = Undefined
        THEN /\ call.fresh.ret = "undefined"
             /\ call.inPlace.ret = "undefined"
             /\ call.inPlace.result = <<UsedMatrix>>
        ELSE SamePaths

C21_Witness ==
    /\ BothCalled
    /\ call.name = "fromRowMajorArray"
    /\ call.input = Matrix2(1, 0, -1, 1)
    /\ call.inPlace.ret = "result"
    /\ call.inPlace.value = Matrix2(1, -1, 0, 1)
    /\ call.fresh.value = Matrix2(1, -1, 0, 1)

\* ---- further claims about Clock.tick ----
\* The time a SYSTEM_CLOCK_MULTIPLIER tick reaches before the range policy.
Elapsed == clock.currentTime + clock.multiplier * last'.arg.milliseconds

\* C23: in SYSTEM_CLOCK_MULTIPLIER mode an animating tick advances currentTime
\* by multiplier times the time elapsed since the previous tick (since
\* construction for the first one), exactly so when the range is UNBOUNDED or
\* the advanced time lies within the window; every tick that returns, animating
\* or not, stores its time stamp, and nothing but a tick changes the stored stamp.
C23_ElapsedSinceLastTick ==
    [][/\ TickStep =>
            clock'.lastSystemTime = clock.lastSystemTime + last'.arg.milliseconds
       /\ (pc = "ready" /\ pc' = "ready" /\ last'.op # "tick") =>
            clock'.lastSystemTime = clock.lastSystemTime
       /\ (/\ TickStep
           /\ clock.clockStep = SYSTEM_CLOCK_MULTIPLIER
           /\ clock.canAnimate /\ clock.shouldAnimate
           /\ \/ clock.clockRange = UNBOUNDED
              \/ (clock.startTime <= Elapsed /\ Elapsed <= clock.stopTime)) =>
            clock'.currentTime = Elapsed]_vars

\* C23 witness: an animating SYSTEM_CLOCK_MULTIPLIER tick one second after an
\* earlier tick or a construction that took place at stamp one second.
C23_Witness ==
    /\ Ticked
    /\ last.pre.clockStep = SYSTEM_CLOCK_MULTIPLIER
    /\ clock.canAnimate /\ last.pre.shouldAnimate
    /\ clock.clockRange = UNBOUNDED
    /\ last.pre.multiplier = MaxMultiplier
    /\ last.arg.milliseconds = MsPerSecond
    /\ clock.lastSystemTime = 2 * MsPerSecond
    /\ clock.currentTime = last.pre.currentTime + MaxMultiplier * MsPerSecond

AnimatedStep ==
    /\ TickStep
    /\ clock.canAnimate /\ clock.shouldAnimate
    /\ clock.clockStep \in {TICK_DEPENDENT, SYSTEM_CLOCK_MULTIPLIER}

\* C24: with startTime <= stopTime, in CLAMPED and in LOOP_STOP range an
\* animating tick whose advanced time precedes startTime ends at startTime and
\* raises no stop notification (LOOP_STOP does not wrap backwards to stopTime);
\* in UNBOUNDED range no tick raises the stop notification, and an animating
\* tick ends at the advanced time.
C24_SnapToStart ==
    [][/\ (/\ AnimatedStep
           /\ clock.clockRange \in {CLAMPED, LOOP_STOP}
           /\ clock.startTime <= clock.stopTime
           /\ Advanced < clock.startTime) =>
            /\ clock'.currentTime = clock.startTime
            /\ last'.ret = clock.startTime
            /\ onStopRaised' = 0
       /\ (TickStep /\ clock.clockRange = UNBOUNDED) => onStopRaised' = 0
       /\ (AnimatedStep /\ clock.clockRange = UNBOUNDED) =>
            clock'.currentTime = Advanced]_vars

\* C24 witness: a LOOP_STOP clock running backwards from startTime.
C24_Witness ==
    /\ Ticked
    /\ clock.clockRange = LOOP_STOP
    /\ last.pre.clockStep = TICK_DEPENDENT
    /\ clock.canAnimate /\ last.pre.shouldAnimate
    /\ last.pre.multiplier = -1
    /\ last.pre.currentTime = clock.startTime
    /\ clock.startTime < clock.stopTime
    /\ clock.currentTime = clock.startTime
    /\ onStopRaised = 0

\* C27: tick() terminates: for every clock with startTime <= stopTime, every
\* range, every step mode and every multiplier, the LOOP_STOP loop ends and
\* tick() returns.
C27_AsClaimed == pc # "hung"

\* C28: tick() changes only currentTime and the stored time stamp: startTime,
\* stopTime, multiplier, clockStep, clockRange, canAnimate and shouldAnimate are
\* after any tick what they were before it, in every mode.
C28_TickFrame ==
    [][(pc = "ready" /\ last'.op = "tick") =>
         /\ clock'.startTime = clock.startTime
         /\ clock'.stopTime = clock.stopTime
         /\ clock'.multiplier = clock.multiplier
         /\ clock'.clockStep = clock.clockStep
         /\ clock'.clockRange = clock.clockRange
         /\ clock'.canAnimate = clock.canAnimate
         /\ clock'.shouldAnimate = clock.shouldAnimate]_vars

\* C28 witness: a tick that clamped the time to stopTime and raised the stop
\* notification, with the clock still animating.
C28_Witness ==
    /\ Ticked
    /\ clock.clockRange = CLAMPED
    /\ onStopRaised = 1
    /\ clock.currentTime = clock.stopTime
    /\ last.pre.currentTime < clock.stopTime
    /\ last.pre.shouldAnimate /\ clock.shouldAnimate /\ clock.canAnimate
    /\ clock.multiplier = last.pre.multiplier
    /\ clock.clockStep = last.pre.clockStep

\* ---- tick(), statement by statement, with the listeners' observations ----
MaxStops == 3

\* What a listener of the event sees when it is called with the clock: the
\* clock's currentTime at that moment.
raiseEvent(log, event, this) == Append(log, [event |-> event, seen |-> this.currentTime])

\* The clocks that construction produces.
ConstructedClocks ==
    {Constructor(opts, MsPerSecond, MsPerSecond, 0) :
        opts \in {o \in ClockOptions : ~ConstructorThrows(o, MsPerSecond)}}

\* getTimestamp(), the clone of _currentTime and the step.
tick_Advance(t) ==
    LET c == t.this
        milliseconds == t.currentSystemTime - c.lastSystemTime
    IN  IF Animating(c)
        THEN IF c.clockStep = SYSTEM_CLOCK
             THEN [t EXCEPT !.currentTime = t.now, !.at = "commit"]
             ELSE [t EXCEPT !.currentTime = Advance(c, milliseconds), !.at = "range"]
        ELSE [t EXCEPT !.at = "commit"]

tick_Clamped_AssignsFirst(t) ==
    LET c == t.this IN
    IF lessThan(t.currentTime, c.startTime)
    THEN [t EXCEPT !.currentTime = c.startTime, !.at = "commit"]
    ELSE IF greaterThan(t.currentTime, c.stopTime)
    THEN [t EXCEPT !.currentTime = c.stopTime, !.at = "commit",
                   !.this = [c EXCEPT !.currentTime = c.stopTime],
                   !.log = raiseEvent(t.log, "onStop", [c EXCEPT !.currentTime = c.stopTime])]
    ELSE [t EXCEPT !.at = "commit"]

tick_Clamped(t) ==
    LET c == t.this IN
    IF lessThan(t.currentTime, c.startTime)
    THEN [t EXCEPT !.currentTime = c.startTime, !.at = "commit"]
    ELSE IF greaterThan(t.currentTime, c.stopTime)
    THEN [t EXCEPT !.currentTime = c.stopTime, !.at = "commit",
                   !.log = raiseEvent(t.log, "onStop", c)]
    ELSE [t EXCEPT !.at = "commit"]

tick_LoopStart(t) ==
    [t EXCEPT !.currentTime = LoopStart(t.currentTime, t.this.startTime), !.at = "loop"]

\* One test of the while condition, and one round of the loop if it holds.
tick_LoopRound(t) ==
    LET c == t.this IN
    IF greaterThan(t.currentTime, c.stopTime)
    THEN [t EXCEPT !.currentTime =
                       addSeconds(c.startTime, secondsDifference(t.currentTime, c.stopTime)),
                   !.log = raiseEvent(t.log, "onStop", c)]
    ELSE [t EXCEPT !.at = "commit"]

tick_Commit(t) ==
    [t EXCEPT !.this = Commit(t.this, t.currentTime, t.currentSystemTime), !.at = "notify"]

tick_Notify(t) == [t EXCEPT !.log = raiseEvent(t.log, "onTick", t.this), !.at = "return"]

tick_Return(t) == [t EXCEPT !.ret = <<t.currentTime>>, !.at = "done"]

TickCallInit ==
    /\ ClockNew
    /\ AANew
    /\ \E c \in ConstructedClocks, currentSystemTime \in StampValues :
         \E now \in NowRead(Animating(c) /\ c.clockStep = SYSTEM_CLOCK) :
           call = [fn |-> "tick", at |-> "advance", this |-> c, before |-> c.currentTime,
                   currentSystemTime |-> currentSystemTime, now |-> now,
                   currentTime |-> c.currentTime, log |-> <<>>, ret |-> Undefined]

TickAt(at) == call.fn = "tick" /\ call.at = at /\ UNCHANGED <<clockVars, aaVars>>

TickAdvance == TickAt("advance") /\ call' = tick_Advance(call)

TickClamped ==
    /\ TickAt("range")
    /\ call.this.clockRange = CLAMPED
    /\ call' = tick_Clamped(call)

TickLoopStart ==
    /\ TickAt("range")
    /\ call.this.clockRange = LOOP_STOP
    /\ call' = tick_LoopStart(call)

\* The rounds of a loop that does not end are followed up to MaxStops.
TickLoopRound ==
    /\ TickAt("loop")
    /\ Len(call.log) < MaxStops \/ ~greaterThan(call.currentTime, call.this.stopTime)
    /\ call' = tick_LoopRound(call)

TickUnbounded ==
    /\ TickAt("range")
    /\ call.this.clockRange = UNBOUNDED
    /\ call' = [call EXCEPT !.at = "commit"]

TickCommit == TickAt("commit") /\ call' = tick_Commit(call)

TickNotify == TickAt("notify") /\ call' = tick_Notify(call)

TickReturn == TickAt("return") /\ call' = tick_Return(call)

TickCallNext ==
    \/ TickAdvance
    \/ TickClamped
    \/ TickLoopStart
    \/ TickLoopRound
    \/ TickUnbounded
    \/ TickCommit
    \/ TickNotify
    \/ TickReturn

TickCallSpec == TickCallInit /\ [][TickCallNext]_vars

\* ---- claims about the order of events in tick() ----
LogOf(event) == {i \in 1..Len(call.log) : call.log[i].event = event}

\* C29: within one tick() every stop notification is raised before currentTime
\* is assigned, so that its listener sees the currentTime of before the tick;
\* then currentTime and the time stamp are stored; then the tick notification
\* is raised exactly once, its listener seeing the value that tick() returns.
C29_EventOrder ==
    call.fn = "tick" =>
        /\ \A i \in LogOf("onStop") : call.log[i].seen = call.before
        /\ \A i \in LogOf("onStop"), j \in LogOf("onTick") : i < j
        /\ call.at \in {"advance", "range", "loop", "commit"} =>
               /\ LogOf("onTick") = {}
               /\ call.this.currentTime = call.before
        /\ call.at = "notify" =>
               /\ LogOf("onTick") = {}
               /\ call.this.currentTime = call.currentTime
               /\ call.this.lastSystemTime = call.currentSystemTime
        /\ call.at \in {"return", "done"} =>
               /\ Cardinality(LogOf("onTick")) = 1
               /\ call.log[Len(call.log)] = [event |-> "onTick", seen |-> call.currentTime]
               /\ call.this.currentTime = call.currentTime
        /\ call.at = "done" => call.ret = <<call.currentTime>>

\* C29 witness: a tick that raised the stop notification, stored a new time and
\* then raised the tick notification.
C29_Witness ==
    /\ call.fn = "tick" /\ call.at = "done"
    /\ call.this.clockRange = CLAMPED
    /\ call.before < call.this.stopTime
    /\ call.log = << [event |-> "onStop", seen |-> call.before],
                     [event |-> "onTick", seen |-> call.this.stopTime] >>
    /\ call.ret = <<call.this.stopTime>>

\* ---- BoundingRectangle.expand ----
\* BoundingRectangle.clone(rectangle, result) for a defined rectangle, which is
\* the object L: a new object N, or the result written field by field.
BoundingRectangle_clone(heap, result) ==
    IF result = Undefined
    THEN [ref |-> "N",
          heap |-> [heap EXCEPT !["N"] =
                       BoundingRectangle(heap["L"].x, heap["L"].y,
                                         heap["L"].width, heap["L"].height)]]
    ELSE LET h1 == [heap EXCEPT ![result[1]].x = heap["L"].x]
             h2 == [h1 EXCEPT ![result[1]].y = h1["L"].y]
             h3 == [h2 EXCEPT ![result[1]].width = h2["L"].width]
         IN  [ref |-> result[1], heap |-> [h3 EXCEPT ![result[1]].height = h3["L"].height]]

ExpandAxis_NoShift(origin, extent, coordinate) ==
    LET size == coordinate - origin
    IN  IF size > extent THEN [origin |-> origin, extent |-> size]
        ELSE IF size < 0 THEN [origin |-> origin, extent |-> extent - size]
        ELSE [origin |-> origin, extent |-> extent]

\* One axis of expand: x and width against point.x, y and height against point.y.
ExpandAxis(origin, extent, coordinate) ==
    LET size == coordinate - origin
    IN  IF size > extent THEN [origin |-> origin, extent |-> size]
        ELSE IF size < 0 THEN [origin |-> coordinate, extent |-> extent - size]
        ELSE [origin |-> origin, extent |-> extent]

expand(heap, point, result) ==
    LET cloned == BoundingRectangle_clone(heap, result)
        r == cloned.heap[cloned.ref]
        horizontal == ExpandAxis(r.x, r.width, point.x)
        vertical == ExpandAxis(r.y, r.height, point.y)
    IN  [ref |-> cloned.ref,
         heap |-> [cloned.heap EXCEPT ![cloned.ref] =
                      BoundingRectangle(horizontal.origin, vertical.origin,
                                        horizontal.extent, vertical.extent)]]

ExpandPoints == {Cartesian2(x, y) : x \in -1..(MaxRect + 1), y \in -1..(MaxRect + 1)}

ExpandInit ==
    /\ ClockNew
    /\ AANew
    /\ \E rectangle \in Rectangles, point \in ExpandPoints, result \in Opt({"L", "N"}) :
           call = [fn |-> "expand", done |-> FALSE, rectangle |-> rectangle,
                   point |-> point, result |-> result,
                   heap |-> [o \in {"L", "N"} |-> IF o = "L" THEN rectangle ELSE UsedResult],
                   ret |-> "N"]

Expand ==
    /\ call.fn = "expand"
    /\ ~call.done
    /\ LET r == expand(call.heap, call.point, call.result)
       IN  call' = [call EXCEPT !.done = TRUE, !.heap = r.heap, !.ret = r.ref]
    /\ UNCHANGED <<clockVars, aaVars>>

ExpandNext == Expand

ExpandSpec == ExpandInit /\ [][ExpandNext]_vars

multiplyByScale_Rows(heap, scale, result) ==
    LET h0 == [heap EXCEPT ![result][0] = heap["L"][0] * scale.x]
        h1 == [h0 EXCEPT ![result][1] = h0["L"][1] * scale.y]
        h2 == [h1 EXCEPT ![result][2] = h1["L"][2] * scale.x]
    IN  [h2 EXCEPT ![result][3] = h2["L"][3] * scale.y]

multiplyByScale(heap, scale, result) ==
    LET h0 == [heap EXCEPT ![result][0] = heap["L"][0] * scale.x]
        h1 == [h0 EXCEPT ![result][1] = h0["L"][1] * scale.x]
        h2 == [h1 EXCEPT ![result][2] = h1["L"][2] * scale.y]
    IN  [h2 EXCEPT ![result][3] = h2["L"][3] * scale.y]

multiplyByUniformScale(heap, scale, result) ==
    LET h0 == [heap EXCEPT ![result][0] = heap["L"][0] * scale]
        h1 == [h0 EXCEPT ![result][1] = h0["L"][1] * scale]
        h2 == [h1 EXCEPT ![result][2] = h1["L"][2] * scale]
    IN  [h2 EXCEPT ![result][3] = h2["L"][3] * scale]

ScaleKinds == {"multiplyByScale", "multiplyByUniformScale"}

ScaleInputs(kind) ==
    IF kind = "multiplyByScale" THEN {Cartesian2(x, y) : x \in Entries, y \in Entries}
    ELSE Entries

ScaleHeap(matrix, right) ==
    [o \in ResultRefs |-> IF o = "L" THEN matrix ELSE IF o = "R" THEN right ELSE UsedMatrix]

\* multiplyByScale(m, s, r), or multiplyByUniformScale(m, k, r).
Scaled(kind, matrix, scale, result) ==
    LET heap == ScaleHeap(matrix, UsedMatrix)
    IN  IF kind = "multiplyByScale" THEN multiplyByScale(heap, scale, result)[result]
        ELSE multiplyByUniformScale(heap, scale, result)[result]

\* multiply(m, fromScale(s), r), or multiply(m, fromUniformScale(k), r).
ScaledByMultiply(kind, matrix, scale, result) ==
    LET right == IF kind = "multiplyByScale" THEN Matrix2_fromScale(scale, Undefined).value
                 ELSE Matrix2_fromUniformScale(scale, Undefined).value
    IN  multiply(ScaleHeap(matrix, right), result)[result]

ScaleInit ==
    /\ ClockNew
    /\ AANew
    /\ \E kind \in ScaleKinds, matrix \in Matrices, result \in {"L", "N"} :
           \E scale \in ScaleInputs(kind) :
               call = [fn |-> "scale", kind |-> kind, matrix |-> matrix, scale |-> scale,
                       result |-> result, direct |-> Undefined, composed |-> Undefined]

ScaleDirect ==
    /\ call.fn = "scale"
    /\ call.direct = Undefined
    /\ call' = [call EXCEPT !.direct =
                    <<Scaled(call.kind, call.matrix, call.scale, call.result)>>]
    /\ UNCHANGED <<clockVars, aaVars>>

ScaleByMultiply ==
    /\ call.fn = "scale"
    /\ call.composed = Undefined
    /\ call' = [call EXCEPT !.composed =
                    <<ScaledByMultiply(call.kind, call.matrix, call.scale, call.result)>>]
    /\ UNCHANGED <<clockVars, aaVars>>

ScaleNext ==
    \/ ScaleDirect
    \/ ScaleByMultiply

ScaleSpec == ScaleInit /\ [][ScaleNext]_vars

\* ---- claims about multiplyByScale and multiplyByUniformScale ----
\* The scale matrix of the call: diag(s.x, s.y), or diag(k, k).
ScaleMatrix ==
    IF call.kind = "multiplyByScale" THEN Matrix2(call.scale.x, 0, 0, call.scale.y)
    ELSE Matrix2(call.scale, 0, 0, call.scale)

MaxRebuilds == 3
MaxClears == 2
MaxFiles == 1

\* A build result is the number of its output files; a rebuild in flight is
\* known by its number and by the number of clear() calls made before it
\* started. promise is the number of the rebuild whose promise is stored (0 for
\* the resolved promise of the constructor).
ContextCache ==
    [fn |-> "ContextCache", result |-> Undefined, promise |-> 0, pending |-> {},
     clears |-> 0, rebuilt |-> FALSE]

clear(c) == [c EXCEPT !.result = Undefined, !.clears = c.clears + 1, !.rebuilt = FALSE]

\* rebuild() up to its await: context.rebuild() is started and its promise stored.
rebuild_Start(c) ==
    [c EXCEPT !.promise = c.promise + 1,
              !.pending = c.pending \cup {[id |-> c.promise + 1, clears |-> c.clears]}]

\* rebuild() after its await: the build result is stored. rebuilt records that
\* a rebuild started after the last clear() has completed with an output file.
rebuild_Resume(c, p, files) ==
    [c EXCEPT !.result = <<files>>, !.pending = c.pending \ {p},
              !.rebuilt = c.rebuilt \/ (p.clears = c.clears /\ files > 0)]

\* rebuild() whose build promise is rejected: nothing is stored.
rebuild_Reject(c, p) == [c EXCEPT !.pending = c.pending \ {p}]

isBuilt(c) == c.result # Undefined /\ c.result[1] > 0

CacheInit ==
    /\ ClockNew
    /\ AANew
    /\ call = ContextCache

CacheStep(c) == call.fn = "ContextCache" /\ call' = c /\ UNCHANGED <<clockVars, aaVars>>

Clear == call.clears < MaxClears /\ CacheStep(clear(call))

RebuildStart == call.promise < MaxRebuilds /\ CacheStep(rebuild_Start(call))

RebuildResume ==
    \E p \in call.pending, files \in 0..MaxFiles : CacheStep(rebuild_Resume(call, p, files))

RebuildReject == \E p \in call.pending : CacheStep(rebuild_Reject(call, p))

CacheNext ==
    \/ Clear
    \/ RebuildStart
    \/ RebuildResume
    \/ RebuildReject

CacheSpec == CacheInit /\ [][CacheNext]_vars

\* ---- claims about ContextCache ----
\* C30: under any interleaving of clear() and rebuild() calls, after a clear()
\* isBuilt() is false until a rebuild() started after that clear() has
\* completed with at least one output file; a rebuild() in flight at the time
\* of the clear() does not make isBuilt() true again.
C30_AsClaimed ==
    (call.fn = "ContextCache" /\ call.clears > 0 /\ ~call.rebuilt) => ~isBuilt(call)

====
